---- MODULE Spec2Model ----
(***************************************************************************)
(* Order-to-inventory pipeline of the bakery point-of-sale backend:        *)
(* OrderService, StockManager, CostCalculator and the tables they write.   *)
(*                                                                         *)
(* Every DECIMAL(n,2) column (stock_quantity, quantity_needed, unit_price, *)
(* selling_price, cost_price, total_amount, stock movement quantity) is    *)
(* held as an integer count of hundredths.  Order line quantities are      *)
(* INTEGER columns and are plain integers.                                 *)
(*                                                                         *)
(* A request handler is an async function: every awaited database query is *)
(* one atomic step, and the handlers of different requests interleave      *)
(* between steps.  Spec runs the order and stock handlers of two requests  *)
(* concurrently; SeqSpec runs every handler to completion before the next  *)
(* request starts.                                                         *)
(***************************************************************************)
EXTENDS Integers, Sequences, FiniteSets, TLC

VARIABLES stock_quantity,   \* ingredients.stock_quantity
          unit_price,       \* ingredients.unit_price
          products,         \* products: selling_price, cost_price, is_available
          recipes,          \* recipes.quantity_needed per (product, ingredient); 0 = no row
          orders,           \* orders with their order_items, indexed by id
          order_revisions,  \* order_revisions, in insertion order
          stock_movements,  \* stock_movements, in insertion order
          proc,             \* the request each handler slot is serving and its locals
          history,          \* the requests that returned or threw, oldest first
          budget            \* requests the server still accepts

vars == <<stock_quantity, unit_price, products, recipes, orders,
          order_revisions, stock_movements, proc, history, budget>>

db == <<stock_quantity, unit_price, products, recipes, orders,
        order_revisions, stock_movements>>

----------------------------------------------------------------------------
\* Bounds of the model

\* requests served one after the other in SeqSpec
MaxRequests == 2

MaxQuantity == 2

----------------------------------------------------------------------------
\* Fixture: the rows present when the server starts

Ingredients == {"flour", "sugar"}

\* recipes rows come back ORDER BY created_at ASC
IngredientOrder == <<"flour", "sugar">>

Products == {"bread", "cake"}

Procs == {"r1", "r2"}

Statuses == {"pending", "processing", "completed", "cancelled"}

\* stock before the first order was taken
OpeningStock == [flour |-> 5, sugar |-> 3]

InitUnitPrice == [flour |-> 50, sugar |-> 100]

InitRecipes == [bread |-> [flour |-> 2, sugar |-> 1],
                cake  |-> [flour |-> 1, sugar |-> 0]]

----------------------------------------------------------------------------
\* Helpers on sequences

Max(a, b) == IF a >= b THEN a ELSE b

Range(s) == {s[n] : n \in 1..Len(s)}

RECURSIVE SumSeq(_)
SumSeq(s) == IF s = <<>> THEN 0 ELSE Head(s) + SumSeq(Tail(s))

\* index of the first element of s whose ingredient_id is i, 0 if none
IndexOfIngredient(s, i) ==
    LET hits == {n \in 1..Len(s) : s[n].ingredient_id = i}
    IN IF hits = {} THEN 0 ELSE CHOOSE n \in hits : \A m \in hits : n <= m

----------------------------------------------------------------------------
\* Recipe model and the pure part of StockManager

\* Recipe.findByProductId: the product's recipe rows joined with the
\* ingredient's price and stock at the moment of the query
findByProductId(product_id) ==
    LET has == SelectSeq(IngredientOrder,
                   LAMBDA i : product_id \in DOMAIN recipes /\ recipes[product_id][i] > 0)
    IN [n \in 1..Len(has) |->
           [ingredient_id   |-> has[n],
            quantity_needed |-> recipes[product_id][has[n]],
            unit_price      |-> unit_price[has[n]],
            stock_quantity  |-> stock_quantity[has[n]]]]

\* The quantities are DECIMAL(10,2) columns, held here in hundredths; the
\* handlers compute with them as JavaScript numbers, IEEE 754 doubles. A
\* double that lies below the decimal value it stands for compares with every
\* two-decimal stock as that value does; one that lies above it compares as
\* greater than the stock equal to that value. The three tables list, for the
\* quantities the specifications draw, the operations whose double result is
\* not the double of the decimal result.

\* <<quantity_needed, quantity>> whose double product lies above the decimal
\* product (0.05 * 3 is 0.15000000000000002)
ProductsAbove == {<<5, 3>>}

\* <<a, whether a lies above, b, whether b lies above>> whose double sum lies
\* above the decimal sum (0.02 + 0.39 is 0.41000000000000003)
SumsAbove ==
    {<<6, FALSE, 15, TRUE>>, <<8, FALSE, 20, FALSE>>, <<2, FALSE, 39, FALSE>>,
     <<4, FALSE, 78, FALSE>>, <<8, FALSE, 156, FALSE>>}

\* <<stock_quantity, quantity_needed>> whose double quotient lies below the
\* whole number the decimal quotient is (1.17 / 0.39 is 2.9999999999999996)
QuotientsBelow == {<<15, 5>>, <<117, 1>>, <<117, 39>>}

\* whether the double of a requirement lies above the stock, given the
\* decimal value of the requirement and whether its double lies above it
exceeds(quantity_needed, above, current_stock) ==
    \/ current_stock < quantity_needed
    \/ current_stock = quantity_needed /\ above

\* checkOrderStock, body of the loop over one item's recipe rows: the
\* requirement is added to the ingredient's entry when there is one, and a new
\* entry records the stock the row carried
RECURSIVE collectRequirements(_, _, _)
collectRequirements(allRequirements, rows, quantity) ==
    IF rows = <<>> THEN allRequirements
    ELSE LET recipe   == Head(rows)
             required == recipe.quantity_needed * quantity
             existing == IndexOfIngredient(allRequirements, recipe.ingredient_id)
             above    == <<recipe.quantity_needed, quantity>> \in ProductsAbove
             next == IF existing > 0
                     THEN [allRequirements EXCEPT
                              ![existing].quantity_needed = @ + required,
                              ![existing].above =
                                  <<allRequirements[existing].quantity_needed, @,
                                    required, above>> \in SumsAbove]
                     ELSE Append(allRequirements,
                                 [ingredient_id   |-> recipe.ingredient_id,
                                  quantity_needed |-> required,
                                  above           |-> above,
                                  current_stock   |-> recipe.stock_quantity])
         IN collectRequirements(next, Tail(rows), quantity)

\* fault: the shortage is computed as available - required
findShortages_swapped(allRequirements) ==
    LET short == SelectSeq(allRequirements,
                     LAMBDA req : exceeds(req.quantity_needed, req.above, req.current_stock))
    IN [n \in 1..Len(short) |->
           [ingredient_id |-> short[n].ingredient_id,
            required      |-> short[n].quantity_needed,
            available     |-> short[n].current_stock,
            shortage      |-> short[n].current_stock - short[n].quantity_needed]]

\* checkOrderStock, the shortage loop
findShortages(allRequirements) ==
    LET short == SelectSeq(allRequirements,
                     LAMBDA req : exceeds(req.quantity_needed, req.above, req.current_stock))
    IN [n \in 1..Len(short) |->
           [ingredient_id |-> short[n].ingredient_id,
            required      |-> short[n].quantity_needed,
            available     |-> short[n].current_stock,
            shortage      |-> short[n].quantity_needed - short[n].current_stock]]

RECURSIVE requirementsOf(_, _)
requirementsOf(allRequirements, orderItems) ==
    IF orderItems = <<>> THEN allRequirements
    ELSE requirementsOf(
             collectRequirements(allRequirements,
                                 findByProductId(Head(orderItems).product_id),
                                 Head(orderItems).quantity),
             Tail(orderItems))

\* checkOrderStock when nothing is written between its queries
checkOrderStock(orderItems) ==
    LET requirements == requirementsOf(<<>>, orderItems)
        shortages    == findShortages(requirements)
    IN [canFulfill   |-> shortages = <<>>,
        shortages    |-> shortages,
        requirements |-> requirements]

\* getMaxOrderableQuantity: Math.floor(stock_quantity / quantity_needed)
possibleQuantity(recipe) ==
    (recipe.stock_quantity \div recipe.quantity_needed)
        - (IF <<recipe.stock_quantity, recipe.quantity_needed>> \in QuotientsBelow
           THEN 1 ELSE 0)

\* getMaxOrderableQuantity, the loop keeping the smallest possibleQuantity
maxQuantity(rows) ==
    CHOOSE m \in {possibleQuantity(rows[n]) : n \in 1..Len(rows)} :
        \A n \in 1..Len(rows) : m <= possibleQuantity(rows[n])

\* StockManager.getMaxOrderableQuantity
getMaxOrderableQuantity(productId) ==
    LET rows == findByProductId(productId) IN
    IF Len(rows) = 0
    THEN [product_id |-> productId, max_quantity |-> 999, has_recipe |-> FALSE]
    ELSE [product_id |-> productId, max_quantity |-> maxQuantity(rows), has_recipe |-> TRUE]

\* Ingredient.adjustStock: the quantity written back for the stock it read
\* fault: the sum is written back without the floor at zero
newQuantity_unclamped(current, adjustment) == current + adjustment

newQuantity(current, adjustment) == Max(0, current + adjustment)

\* fault: one unit's worth is returned whatever the line's quantity
returnQuantity_perUnit(recipe, item) == recipe.quantity_needed

\* returnOrderStock: const returnQuantity = recipe.quantity_needed * item.quantity
returnQuantity(recipe, item) == recipe.quantity_needed * item.quantity

\* returnOrderStock: the (ingredient, returnQuantity) pairs its two nested
\* loops visit, in order.  recipes is written by no handler that runs while a
\* return is in progress, so the rows are those at the start of the loop.
RECURSIVE returnPlan(_)
returnPlan(orderItems) ==
    IF orderItems = <<>> THEN <<>>
    ELSE LET item == Head(orderItems)
             rows == findByProductId(item.product_id)
         IN [n \in 1..Len(rows) |->
                [ingredient_id  |-> rows[n].ingredient_id,
                 returnQuantity |-> returnQuantity(rows[n], item)]]
            \o returnPlan(Tail(orderItems))

----------------------------------------------------------------------------
\* CostCalculator

\* the products table comes back in this order
ProductOrder == <<"bread", "cake">>

\* calculateProductCost: breakdown.reduce, the sum of quantity_needed * unit_price
\* (two hundredths multiplied: ten-thousandths)
totalCost(rows) ==
    SumSeq([n \in 1..Len(rows) |-> rows[n].quantity_needed * rows[n].unit_price])

\* fault: the cost is truncated to hundredths
roundedCost_truncated(total) == total \div 100

\* calculateProductCost: Math.round(totalCost * 100) / 100, in hundredths
roundedCost(total) == (total + 50) \div 100

\* Recipe.findByIngredientId, then the distinct product ids
productsUsing(ingredient_id) ==
    SelectSeq(ProductOrder, LAMBDA product_id : recipes[product_id][ingredient_id] > 0)

----------------------------------------------------------------------------
\* Order model

\* OrderService.createOrder / updateOrder, the loop resolving each item's
\* product: the first missing or (on create) unavailable product throws
RECURSIVE resolveItems(_, _)
resolveItems(items, requireAvailable) ==
    IF items = <<>> THEN [error |-> "none", itemsWithPrices |-> <<>>]
    ELSE LET item == Head(items) IN
         IF item.product_id \notin DOMAIN products
         THEN [error |-> "NOT_FOUND", itemsWithPrices |-> <<>>]
         ELSE IF requireAvailable /\ ~products[item.product_id].is_available
         THEN [error |-> "BAD_REQUEST", itemsWithPrices |-> <<>>]
         ELSE LET rest == resolveItems(Tail(items), requireAvailable) IN
              IF rest.error # "none" THEN rest
              ELSE [error |-> "none",
                    itemsWithPrices |->
                        <<[product_id |-> item.product_id,
                           quantity   |-> item.quantity,
                           unit_price |-> products[item.product_id].selling_price]>>
                        \o rest.itemsWithPrices]

\* fault: the total leaves out the quantities
totalAmount_perLine(items) ==
    SumSeq([n \in 1..Len(items) |-> items[n].unit_price])

\* Order.create / Order.update: total_amount
totalAmount(items) ==
    SumSeq([n \in 1..Len(items) |-> items[n].unit_price * items[n].quantity])

\* Order.create / Order.update: the order_items rows inserted
orderItemRows(items) ==
    [n \in 1..Len(items) |->
        [product_id |-> items[n].product_id,
         quantity   |-> items[n].quantity,
         unit_price |-> items[n].unit_price,
         subtotal   |-> items[n].unit_price * items[n].quantity]]

\* fault: a completed order can be reopened
validTransitions_reopen ==
    [pending    |-> {"processing", "cancelled"},
     processing |-> {"completed", "cancelled"},
     completed  |-> {"processing"},
     cancelled  |-> {}]

\* updateOrderStatus: validTransitions
validTransitions ==
    [pending    |-> {"processing", "cancelled"},
     processing |-> {"completed", "cancelled"},
     completed  |-> {},
     cancelled  |-> {}]

----------------------------------------------------------------------------
\* Request handlers

\* what a handler compares its outcome with: the tables when it was called
Snapshot ==
    [stock_quantity  |-> stock_quantity,
     unit_price      |-> unit_price,
     products        |-> products,
     recipes         |-> recipes,
     orders          |-> orders,
     order_revisions |-> order_revisions,
     stock_movements |-> stock_movements]

NoSnapshot ==
    [stock_quantity  |-> <<>>,
     unit_price      |-> <<>>,
     products        |-> <<>>,
     recipes         |-> <<>>,
     orders          |-> <<>>,
     order_revisions |-> <<>>,
     stock_movements |-> <<>>]

NoOrder == [order_number |-> 0, status |-> "none", items |-> <<>>, total_amount |-> 0]

\* a handler slot with no request: the arguments of the request (op ... type),
\* then the handler's locals, named as in the source
IdleProc ==
    [pc              |-> "idle",
     op              |-> "none",
     order_id        |-> 0,
     items           |-> <<>>,
     status          |-> "none",
     ingredient_id   |-> "none",
     quantity        |-> 0,
     type            |-> "none",
     product_id      |-> "none",
     body            |-> <<>>,
     pre             |-> NoSnapshot,
     result          |-> "none",
     shortages       |-> <<>>,
     currentOrder    |-> NoOrder,
     newItems        |-> <<>>,
     itemsWithPrices |-> <<>>,
     orderNumber     |-> 0,
     orderItems      |-> <<>>,
     requirements    |-> <<>>,
     plan            |-> <<>>,
     k               |-> 0,
     current         |-> 0,
     adjustment      |-> 0,
     stockMovements  |-> <<>>,
     priceChanged    |-> FALSE,
     productIds      |-> <<>>,
     cost_price      |-> 0,
     then            |-> "none"]

NoRequest ==
    [op            |-> "none",
     order_id      |-> 0,
     items         |-> <<>>,
     status        |-> "none",
     ingredient_id |-> "none",
     quantity      |-> 0,
     type          |-> "none",
     product_id    |-> "none",
     body          |-> <<>>,
     result        |-> "none",
     shortages     |-> <<>>,
     pre           |-> NoSnapshot]

Outcome(me) ==
    [op            |-> me.op,
     order_id      |-> me.order_id,
     items         |-> me.items,
     status        |-> me.status,
     ingredient_id |-> me.ingredient_id,
     quantity      |-> me.quantity,
     type          |-> me.type,
     product_id    |-> me.product_id,
     body          |-> me.body,
     result        |-> me.result,
     shortages     |-> me.shortages,
     pre           |-> me.pre]

\* SeqSpec records each request's outcome and the tables it started from;
\* Spec, whose claims are about the tables alone, does not
Unrecorded == [NoRequest EXCEPT !.op = "unrecorded"]

Recording == history # <<Unrecorded>>

\* the request that returned or threw most recently
last == IF history = <<>> THEN NoRequest ELSE history[Len(history)]

Return(me, result) == [me EXCEPT !.pc = "return", !.result = result]

\* the handler goes on to its next await, or returns / throws to the caller
Resume(p, me) ==
    IF me.pc = "return"
    THEN /\ proc' = [proc EXCEPT ![p] = IdleProc]
         /\ history' = IF Recording THEN Append(history, Outcome(me)) ELSE history
    ELSE /\ proc' = [proc EXCEPT ![p] = me]
         /\ UNCHANGED history

\* a request is taken by the first free handler slot
Accept(p) ==
    /\ proc[p].pc = "idle"
    /\ p = "r2" => proc["r1"].pc # "idle"
    /\ budget > 0
    /\ budget' = budget - 1

At(p, label) == proc[p].pc = label /\ UNCHANGED budget

NewRequest(op) ==
    [IdleProc EXCEPT !.op = op, !.pre = IF Recording THEN Snapshot ELSE NoSnapshot]

\* Order.findById
findById(order_id) ==
    IF order_id \in 1..Len(orders) THEN orders[order_id] ELSE NoOrder

\* ---- StockManager.checkOrderStock, one Recipe.findByProductId per item ----

startCheck(me, orderItems, label) ==
    [me EXCEPT !.pc = label, !.orderItems = orderItems,
               !.requirements = <<>>, !.k = 1]

checkItem(me) ==
    [me EXCEPT !.requirements =
                   collectRequirements(@, findByProductId(me.orderItems[me.k].product_id),
                                       me.orderItems[me.k].quantity),
               !.k = @ + 1]

\* ---- StockManager.deductOrderStock ----

\* what the caller of deductOrderStock does when it returns
afterDeduct(me) ==
    CASE me.then = "createOrder_return" -> Return(me, "ok")
      [] me.then = "updateOrder_throw"  -> Return(me, "INSUFFICIENT_STOCK")
      [] me.then = "updateOrder_update" -> [me EXCEPT !.pc = "Order_update"]

startDeduct(me, orderItems, then) ==
    [startCheck(me, orderItems, "deductOrderStock_check") EXCEPT !.then = then]

\* the re-check at the top of deductOrderStock
deductOrderStock_check(p) ==
    /\ At(p, "deductOrderStock_check")
    /\ LET me == checkItem(proc[p]) IN
       Resume(p,
           IF me.k <= Len(me.orderItems) THEN me
           ELSE IF findShortages(me.requirements) # <<>>
                THEN Return(me, "INSUFFICIENT_STOCK")
           ELSE IF me.requirements = <<>> THEN afterDeduct(me)
           ELSE [me EXCEPT !.pc = "deductOrderStock_findById", !.k = 1,
                           !.stockMovements = <<>>])
    /\ UNCHANGED db

\* Ingredient.adjustStock, its read of the current stock
deductOrderStock_findById(p) ==
    /\ At(p, "deductOrderStock_findById")
    /\ LET me == proc[p] IN
       Resume(p, [me EXCEPT !.pc = "deductOrderStock_updateStock",
                            !.current = stock_quantity[me.requirements[me.k].ingredient_id]])
    /\ UNCHANGED db

\* Ingredient.adjustStock, its write; the movement is queued for createBatch
\* fault: the movement carries the requirement without the minus sign
deductOrderStock_updateStock_unsigned(p) ==
    /\ At(p, "deductOrderStock_updateStock")
    /\ LET me  == proc[p]
           req == me.requirements[me.k]
           movement == [ingredient_id  |-> req.ingredient_id,
                        movement_type  |-> "out",
                        quantity       |-> req.quantity_needed,
                        reference_type |-> "order",
                        reference_id   |-> me.order_id]
       IN /\ stock_quantity' = [stock_quantity EXCEPT ![req.ingredient_id] =
                                    newQuantity(me.current, -req.quantity_needed)]
          /\ Resume(p, [me EXCEPT !.stockMovements = Append(@, movement),
                                  !.current = 0,
                                  !.k = IF me.k < Len(me.requirements) THEN me.k + 1 ELSE 1,
                                  !.pc = IF me.k < Len(me.requirements)
                                         THEN "deductOrderStock_findById"
                                         ELSE "deductOrderStock_createBatch"])
    /\ UNCHANGED <<unit_price, products, recipes, orders, order_revisions, stock_movements>>

deductOrderStock_updateStock(p) ==
    /\ At(p, "deductOrderStock_updateStock")
    /\ LET me  == proc[p]
           req == me.requirements[me.k]
           movement == [ingredient_id  |-> req.ingredient_id,
                        movement_type  |-> "out",
                        quantity       |-> -req.quantity_needed,
                        reference_type |-> "order",
                        reference_id   |-> me.order_id]
       IN /\ stock_quantity' = [stock_quantity EXCEPT ![req.ingredient_id] =
                                    newQuantity(me.current, -req.quantity_needed)]
          /\ Resume(p, [me EXCEPT !.stockMovements = Append(@, movement),
                                  !.current = 0,
                                  !.k = IF me.k < Len(me.requirements) THEN me.k + 1 ELSE 1,
                                  !.pc = IF me.k < Len(me.requirements)
                                         THEN "deductOrderStock_findById"
                                         ELSE "deductOrderStock_createBatch"])
    /\ UNCHANGED <<unit_price, products, recipes, orders, order_revisions, stock_movements>>

\* StockMovement.createBatch, one INSERT per movement
deductOrderStock_createBatch(p) ==
    /\ At(p, "deductOrderStock_createBatch")
    /\ LET me == proc[p] IN
       /\ stock_movements' = Append(stock_movements, me.stockMovements[me.k])
       /\ Resume(p, IF me.k < Len(me.stockMovements)
                    THEN [me EXCEPT !.k = @ + 1]
                    ELSE afterDeduct(me))
    /\ UNCHANGED <<stock_quantity, unit_price, products, recipes, orders, order_revisions>>

\* ---- StockManager.returnOrderStock ----

\* what the caller of returnOrderStock does when it returns
afterReturn(me) ==
    CASE me.then = "cancelOrder_revision"        -> [me EXCEPT !.pc = "cancelOrder_createRevision"]
      [] me.then = "updateOrderStatus_revision"  -> [me EXCEPT !.pc = "updateOrderStatus_createRevision"]
      [] me.then = "updateOrder_resolve"         ->
            \* updateOrder, the loop resolving the new items' products
            LET r == resolveItems(me.newItems, FALSE) IN
            IF r.error # "none" THEN Return(me, r.error)
            ELSE startCheck([me EXCEPT !.itemsWithPrices = r.itemsWithPrices],
                            r.itemsWithPrices, "updateOrder_checkOrderStock")

startReturn(me, orderItems, then) ==
    LET plan == returnPlan(orderItems)
        m    == [me EXCEPT !.plan = plan, !.then = then, !.k = 1, !.stockMovements = <<>>]
    IN IF plan = <<>> THEN afterReturn(m)
       ELSE [m EXCEPT !.pc = "returnOrderStock_findById"]

returnOrderStock_findById(p) ==
    /\ At(p, "returnOrderStock_findById")
    /\ LET me == proc[p] IN
       Resume(p, [me EXCEPT !.pc = "returnOrderStock_updateStock",
                            !.current = stock_quantity[me.plan[me.k].ingredient_id]])
    /\ UNCHANGED db

\* the write of Ingredient.adjustStock; a movement is queued only for the
\* first recipe row of each ingredient, with that row's returnQuantity
returnOrderStock_updateStock(p) ==
    /\ At(p, "returnOrderStock_updateStock")
    /\ LET me  == proc[p]
           row == me.plan[me.k]
           existing == IndexOfIngredient(me.stockMovements, row.ingredient_id)
           movement == [ingredient_id  |-> row.ingredient_id,
                        movement_type  |-> "in",
                        quantity       |-> row.returnQuantity,
                        reference_type |-> "order_cancel",
                        reference_id   |-> me.order_id]
       IN /\ stock_quantity' = [stock_quantity EXCEPT ![row.ingredient_id] =
                                    newQuantity(me.current, row.returnQuantity)]
          /\ Resume(p, [me EXCEPT !.stockMovements =
                                      IF existing > 0 THEN @ ELSE Append(@, movement),
                                  !.current = 0,
                                  !.k = IF me.k < Len(me.plan) THEN me.k + 1 ELSE 1,
                                  !.pc = IF me.k < Len(me.plan)
                                         THEN "returnOrderStock_findById"
                                         ELSE "returnOrderStock_createBatch"])
    /\ UNCHANGED <<unit_price, products, recipes, orders, order_revisions, stock_movements>>

returnOrderStock_createBatch(p) ==
    /\ At(p, "returnOrderStock_createBatch")
    /\ LET me == proc[p] IN
       /\ stock_movements' = Append(stock_movements, me.stockMovements[me.k])
       /\ Resume(p, IF me.k < Len(me.stockMovements)
                    THEN [me EXCEPT !.k = @ + 1]
                    ELSE afterReturn(me))
    /\ UNCHANGED <<stock_quantity, unit_price, products, recipes, orders, order_revisions>>

\* ---- OrderService.createOrder ----

createOrder(p, items) ==
    /\ Accept(p)
    /\ LET me == [NewRequest("createOrder") EXCEPT !.items = items]
           r  == resolveItems(items, TRUE)
       IN Resume(p, IF r.error # "none" THEN Return(me, r.error)
                    ELSE startCheck([me EXCEPT !.itemsWithPrices = r.itemsWithPrices],
                                    r.itemsWithPrices, "createOrder_checkOrderStock"))
    /\ UNCHANGED db

createOrder_checkOrderStock(p) ==
    /\ At(p, "createOrder_checkOrderStock")
    /\ LET me == checkItem(proc[p]) IN
       Resume(p,
           IF me.k <= Len(me.orderItems) THEN me
           ELSE IF findShortages(me.requirements) # <<>>
                THEN Return([me EXCEPT !.shortages = findShortages(me.requirements)],
                            "INSUFFICIENT_STOCK")
           ELSE [me EXCEPT !.pc = "Order_generateOrderNumber"])
    /\ UNCHANGED db

\* Order.generateOrderNumber: COUNT of the day's orders, plus one
generateOrderNumber(p) ==
    /\ At(p, "Order_generateOrderNumber")
    /\ Resume(p, [proc[p] EXCEPT !.pc = "Order_create", !.orderNumber = Len(orders) + 1])
    /\ UNCHANGED db

\* Order.create: the transaction inserting the order and its items;
\* orders.order_number is UNIQUE, a duplicate rolls the transaction back
Order_create(p) ==
    /\ At(p, "Order_create")
    /\ LET me == proc[p] IN
       IF \E o \in 1..Len(orders) : orders[o].order_number = me.orderNumber
       THEN /\ Resume(p, Return(me, "DUPLICATE_KEY"))
            /\ UNCHANGED orders
       ELSE /\ orders' = Append(orders,
                             [order_number |-> me.orderNumber,
                              status       |-> "pending",
                              items        |-> orderItemRows(me.itemsWithPrices),
                              total_amount |-> totalAmount(me.itemsWithPrices)])
            /\ Resume(p, startDeduct([me EXCEPT !.order_id = Len(orders) + 1],
                                     me.itemsWithPrices, "createOrder_return"))
    /\ UNCHANGED <<stock_quantity, unit_price, products, recipes, order_revisions, stock_movements>>

\* ---- OrderService.cancelOrder ----

cancelOrder(p, order_id) ==
    /\ Accept(p)
    /\ LET order == findById(order_id)
           me == [NewRequest("cancelOrder") EXCEPT !.order_id = order_id,
                                                   !.currentOrder = order]
       IN Resume(p, IF order = NoOrder THEN Return(me, "NOT_FOUND")
                    ELSE IF order.status \in {"cancelled", "completed"}
                         THEN Return(me, "BAD_REQUEST")
                    ELSE startReturn(me, order.items, "cancelOrder_revision"))
    /\ UNCHANGED db

cancelOrder_createRevision(p) ==
    /\ At(p, "cancelOrder_createRevision")
    /\ LET me == proc[p] IN
       /\ order_revisions' = Append(order_revisions,
                                 [order_id      |-> me.order_id,
                                  revision_type |-> "cancel_order",
                                  old_value     |-> [status |-> me.currentOrder.status],
                                  new_value     |-> [status |-> "cancelled"]])
       /\ Resume(p, [me EXCEPT !.pc = "cancelOrder_cancel"])
    /\ UNCHANGED <<stock_quantity, unit_price, products, recipes, orders, stock_movements>>

\* Order.cancel = Order.updateStatus(id, 'cancelled')
cancelOrder_cancel(p) ==
    /\ At(p, "cancelOrder_cancel")
    /\ orders' = [orders EXCEPT ![proc[p].order_id].status = "cancelled"]
    /\ Resume(p, Return(proc[p], "ok"))
    /\ UNCHANGED <<stock_quantity, unit_price, products, recipes, order_revisions, stock_movements>>

\* ---- OrderService.updateOrderStatus ----

updateOrderStatus(p, order_id, newStatus) ==
    /\ Accept(p)
    /\ LET order == findById(order_id)
           me == [NewRequest("updateOrderStatus") EXCEPT !.order_id = order_id,
                                                         !.status = newStatus,
                                                         !.currentOrder = order]
       IN Resume(p, IF order = NoOrder THEN Return(me, "NOT_FOUND")
                    ELSE IF newStatus \notin validTransitions[order.status]
                         THEN Return(me, "BAD_REQUEST")
                    ELSE IF newStatus = "cancelled" /\ order.status # "cancelled"
                         THEN startReturn(me, order.items, "updateOrderStatus_revision")
                    ELSE [me EXCEPT !.pc = "updateOrderStatus_createRevision"])
    /\ UNCHANGED db

\* fault: the revision records the new status as the old one
updateOrderStatus_createRevision_noOld(p) ==
    /\ At(p, "updateOrderStatus_createRevision")
    /\ LET me == proc[p] IN
       /\ order_revisions' = Append(order_revisions,
                                 [order_id      |-> me.order_id,
                                  revision_type |-> "update_status",
                                  old_value     |-> [status |-> me.status],
                                  new_value     |-> [status |-> me.status]])
       /\ Resume(p, [me EXCEPT !.pc = "Order_updateStatus"])
    /\ UNCHANGED <<stock_quantity, unit_price, products, recipes, orders, stock_movements>>

updateOrderStatus_createRevision(p) ==
    /\ At(p, "updateOrderStatus_createRevision")
    /\ LET me == proc[p] IN
       /\ order_revisions' = Append(order_revisions,
                                 [order_id      |-> me.order_id,
                                  revision_type |-> "update_status",
                                  old_value     |-> [status |-> me.currentOrder.status],
                                  new_value     |-> [status |-> me.status]])
       /\ Resume(p, [me EXCEPT !.pc = "Order_updateStatus"])
    /\ UNCHANGED <<stock_quantity, unit_price, products, recipes, orders, stock_movements>>

Order_updateStatus(p) ==
    /\ At(p, "Order_updateStatus")
    /\ orders' = [orders EXCEPT ![proc[p].order_id].status = proc[p].status]
    /\ Resume(p, Return(proc[p], "ok"))
    /\ UNCHANGED <<stock_quantity, unit_price, products, recipes, order_revisions, stock_movements>>

\* ---- OrderService.updateOrder ----

\* updateOrder up to its first write: Order.findById, the status guard, and
\* the return of the current items' stock when items are given (<<>>: the
\* request carries no items)
\* fault: the status guard is missing
enterUpdateOrder_unguarded(me, items) ==
    LET order == findById(me.order_id)
        m     == [me EXCEPT !.currentOrder = order, !.newItems = items]
    IN IF order = NoOrder THEN Return(m, "NOT_FOUND")
       ELSE IF items # <<>> THEN startReturn(m, order.items, "updateOrder_resolve")
       ELSE [m EXCEPT !.pc = "Order_update"]

enterUpdateOrder(me, items) ==
    LET order == findById(me.order_id)
        m     == [me EXCEPT !.currentOrder = order, !.newItems = items]
    IN IF order = NoOrder THEN Return(m, "NOT_FOUND")
       ELSE IF order.status \in {"completed", "cancelled"} THEN Return(m, "BAD_REQUEST")
       ELSE IF items # <<>> THEN startReturn(m, order.items, "updateOrder_resolve")
       ELSE [m EXCEPT !.pc = "Order_update"]

updateOrder(p, order_id, items) ==
    /\ Accept(p)
    /\ Resume(p, enterUpdateOrder([NewRequest("updateOrder") EXCEPT !.order_id = order_id,
                                                                    !.items = items],
                                  items))
    /\ UNCHANGED db

\* updateOrder called by addOrderItem / removeOrderItem
updateOrder_findById(p) ==
    /\ At(p, "updateOrder_findById")
    /\ Resume(p, enterUpdateOrder(proc[p], proc[p].newItems))
    /\ UNCHANGED db

\* fault: the error is reported without deducting the original items again
updateOrder_checkOrderStock_noRestore(p) ==
    /\ At(p, "updateOrder_checkOrderStock")
    /\ LET me == checkItem(proc[p]) IN
       Resume(p,
           IF me.k <= Len(me.orderItems) THEN me
           ELSE IF findShortages(me.requirements) # <<>>
                THEN Return(me, "INSUFFICIENT_STOCK")
           ELSE [me EXCEPT !.pc = "updateOrder_createRevision"])
    /\ UNCHANGED db

updateOrder_checkOrderStock(p) ==
    /\ At(p, "updateOrder_checkOrderStock")
    /\ LET me == checkItem(proc[p]) IN
       Resume(p,
           IF me.k <= Len(me.orderItems) THEN me
           ELSE IF findShortages(me.requirements) # <<>>
                THEN startDeduct(me, me.currentOrder.items, "updateOrder_throw")
           ELSE [me EXCEPT !.pc = "updateOrder_createRevision"])
    /\ UNCHANGED db

\* fault: the revision's new_value is the snapshot of the current items
updateOrder_createRevision_stale(p) ==
    /\ At(p, "updateOrder_createRevision")
    /\ LET me == proc[p] IN
       /\ order_revisions' = Append(order_revisions,
                                 [order_id      |-> me.order_id,
                                  revision_type |-> "update_quantity",
                                  old_value     |-> [items |-> me.currentOrder.items],
                                  new_value     |-> [items |-> me.currentOrder.items]])
       /\ Resume(p, startDeduct(me, me.itemsWithPrices, "updateOrder_update"))
    /\ UNCHANGED <<stock_quantity, unit_price, products, recipes, orders, stock_movements>>

updateOrder_createRevision(p) ==
    /\ At(p, "updateOrder_createRevision")
    /\ LET me == proc[p] IN
       /\ order_revisions' = Append(order_revisions,
                                 [order_id      |-> me.order_id,
                                  revision_type |-> "update_quantity",
                                  old_value     |-> [items |-> me.currentOrder.items],
                                  new_value     |-> [items |-> me.itemsWithPrices]])
       /\ Resume(p, startDeduct(me, me.itemsWithPrices, "updateOrder_update"))
    /\ UNCHANGED <<stock_quantity, unit_price, products, recipes, orders, stock_movements>>

\* Order.update: the transaction replacing the order_items and total_amount
Order_update(p) ==
    /\ At(p, "Order_update")
    /\ LET me == proc[p] IN
       orders' = IF me.newItems = <<>> THEN orders
                 ELSE [orders EXCEPT ![me.order_id].items = orderItemRows(me.itemsWithPrices),
                                     ![me.order_id].total_amount = totalAmount(me.itemsWithPrices)]
    /\ Resume(p, Return(proc[p], "ok"))
    /\ UNCHANGED <<stock_quantity, unit_price, products, recipes, order_revisions, stock_movements>>

\* ---- OrderService.addOrderItem ----

addOrderItem(p, order_id, item) ==
    /\ Accept(p)
    /\ LET order == findById(order_id)
           me == [NewRequest("addOrderItem") EXCEPT !.order_id = order_id,
                                                    !.items = <<item>>,
                                                    !.currentOrder = order]
           existingItem == \E n \in 1..Len(order.items) :
                               order.items[n].product_id = item.product_id
           merged == [n \in 1..Len(order.items) |->
                         IF order.items[n].product_id = item.product_id
                         THEN [order.items[n] EXCEPT !.quantity = @ + item.quantity]
                         ELSE order.items[n]]
       IN Resume(p, IF order = NoOrder THEN Return(me, "NOT_FOUND")
                    ELSE IF order.status \in {"completed", "cancelled"}
                         THEN Return(me, "BAD_REQUEST")
                    ELSE IF existingItem
                         THEN [me EXCEPT !.pc = "addOrderItem_createRevision",
                                         !.newItems = merged]
                    ELSE IF item.product_id \notin DOMAIN products
                         THEN Return(me, "NOT_FOUND")
                    ELSE [me EXCEPT !.pc = "addOrderItem_createRevision",
                                    !.newItems = Append(order.items, item)])
    /\ UNCHANGED db

addOrderItem_createRevision(p) ==
    /\ At(p, "addOrderItem_createRevision")
    /\ LET me == proc[p] IN
       /\ order_revisions' = Append(order_revisions,
                                 [order_id      |-> me.order_id,
                                  revision_type |-> "add_item",
                                  old_value     |-> [null |-> TRUE],
                                  new_value     |-> [added_item |-> me.items[1]]])
       /\ Resume(p, [me EXCEPT !.pc = "updateOrder_findById"])
    /\ UNCHANGED <<stock_quantity, unit_price, products, recipes, orders, stock_movements>>

\* ---- OrderService.removeOrderItem ----

removeOrderItem(p, order_id, product_id) ==
    /\ Accept(p)
    /\ LET order == findById(order_id)
           me == [NewRequest("removeOrderItem") EXCEPT
                      !.order_id = order_id,
                      !.items = <<[product_id |-> product_id, quantity |-> 0]>>,
                      !.currentOrder = order]
           newItems == SelectSeq(order.items, LAMBDA i : i.product_id # product_id)
       IN Resume(p, IF order = NoOrder THEN Return(me, "NOT_FOUND")
                    ELSE IF order.status \in {"completed", "cancelled"}
                         THEN Return(me, "BAD_REQUEST")
                    ELSE IF Len(newItems) = Len(order.items) THEN Return(me, "NOT_FOUND")
                    ELSE IF newItems = <<>> THEN Return(me, "BAD_REQUEST")
                    ELSE [me EXCEPT !.pc = "removeOrderItem_createRevision",
                                    !.newItems = newItems])
    /\ UNCHANGED db

removeOrderItem_createRevision(p) ==
    /\ At(p, "removeOrderItem_createRevision")
    /\ LET me == proc[p]
           removedItem == CHOOSE i \in Range(me.currentOrder.items) :
                              i.product_id = me.items[1].product_id
       IN
       /\ order_revisions' = Append(order_revisions,
                                 [order_id      |-> me.order_id,
                                  revision_type |-> "remove_item",
                                  old_value     |-> [removed_item |-> removedItem],
                                  new_value     |-> [null |-> TRUE]])
       /\ Resume(p, [me EXCEPT !.pc = "updateOrder_findById"])
    /\ UNCHANGED <<stock_quantity, unit_price, products, recipes, orders, stock_movements>>

\* ---- StockManager.adjustStock ----

\* the signed amount derived from the movement type
\* fault: 'out' passes the quantity through as given
signedAdjustment_asGiven(quantity, type) ==
    IF type = "in" THEN (IF quantity >= 0 THEN quantity ELSE -quantity)
    ELSE quantity

signedAdjustment(quantity, type) ==
    IF type = "in" THEN (IF quantity >= 0 THEN quantity ELSE -quantity)
    ELSE IF type = "out" THEN -(IF quantity >= 0 THEN quantity ELSE -quantity)
    ELSE quantity

\* fault: the adjustment is applied without the check of the resulting stock
adjustStock_unchecked(p, ingredient_id, quantity, type) ==
    /\ Accept(p)
    /\ Resume(p, [NewRequest("adjustStock") EXCEPT
                      !.ingredient_id = ingredient_id,
                      !.quantity = quantity,
                      !.type = type,
                      !.adjustment = signedAdjustment(quantity, type),
                      !.pc = "adjustStock_findById"])
    /\ UNCHANGED db

adjustStock(p, ingredient_id, quantity, type) ==
    /\ Accept(p)
    /\ LET adjustment == signedAdjustment(quantity, type)
           me == [NewRequest("adjustStock") EXCEPT !.ingredient_id = ingredient_id,
                                                   !.quantity = quantity,
                                                   !.type = type,
                                                   !.adjustment = adjustment]
           newStock == stock_quantity[ingredient_id] + adjustment
       IN Resume(p, IF newStock < 0 THEN Return(me, "INSUFFICIENT_STOCK")
                    ELSE [me EXCEPT !.pc = "adjustStock_findById"])
    /\ UNCHANGED db

adjustStock_findById(p) ==
    /\ At(p, "adjustStock_findById")
    /\ Resume(p, [proc[p] EXCEPT !.pc = "adjustStock_updateStock",
                                 !.current = stock_quantity[proc[p].ingredient_id]])
    /\ UNCHANGED db

adjustStock_updateStock(p) ==
    /\ At(p, "adjustStock_updateStock")
    /\ LET me == proc[p] IN
       /\ stock_quantity' = [stock_quantity EXCEPT ![me.ingredient_id] =
                                 newQuantity(me.current, me.adjustment)]
       /\ Resume(p, [me EXCEPT !.pc = "adjustStock_create", !.current = 0])
    /\ UNCHANGED <<unit_price, products, recipes, orders, order_revisions, stock_movements>>

\* StockMovement.create
adjustStock_create(p) ==
    /\ At(p, "adjustStock_create")
    /\ LET me == proc[p] IN
       /\ stock_movements' = Append(stock_movements,
                                 [ingredient_id  |-> me.ingredient_id,
                                  movement_type  |-> me.type,
                                  quantity       |-> me.adjustment,
                                  reference_type |-> "manual",
                                  reference_id   |-> 0])
       /\ Resume(p, Return(me, "ok"))
    /\ UNCHANGED <<stock_quantity, unit_price, products, recipes, orders, order_revisions>>

\* ---- productController.updateProduct ----

\* the fields of the body overwrite the row's
merge(row, body) ==
    [f \in DOMAIN row |-> IF f \in DOMAIN body THEN body[f] ELSE row[f]]

updateProduct(p, product_id, body) ==
    /\ Accept(p)
    /\ LET me == [NewRequest("updateProduct") EXCEPT !.product_id = product_id,
                                                     !.body = body]
       IN Resume(p, IF product_id \notin DOMAIN products
                    THEN Return(me, "NOT_FOUND")
                    ELSE [me EXCEPT !.pc = "Product_update"])
    /\ UNCHANGED db

\* fault: order lines take the product's new price
Product_update_reprice(p) ==
    /\ At(p, "Product_update")
    /\ LET me  == proc[p]
           row == merge(products[me.product_id], me.body)
       IN /\ products' = [products EXCEPT ![me.product_id] = row]
          /\ orders' = [o \in 1..Len(orders) |->
                           [orders[o] EXCEPT !.items =
                               [n \in 1..Len(@) |->
                                   IF @[n].product_id = me.product_id
                                   THEN [@[n] EXCEPT !.unit_price = row.selling_price]
                                   ELSE @[n]]]]
          /\ Resume(p, Return(me, "ok"))
    /\ UNCHANGED <<stock_quantity, unit_price, recipes, order_revisions, stock_movements>>

Product_update(p) ==
    /\ At(p, "Product_update")
    /\ LET me == proc[p] IN
       /\ products' = [products EXCEPT ![me.product_id] = merge(@, me.body)]
       /\ Resume(p, Return(me, "ok"))
    /\ UNCHANGED <<stock_quantity, unit_price, recipes, orders, order_revisions,
                   stock_movements>>

\* ---- ingredient controller updateIngredient, CostCalculator ----

updateIngredient(p, ingredient_id, body) ==
    /\ Accept(p)
    /\ LET me == [NewRequest("updateIngredient") EXCEPT !.ingredient_id = ingredient_id,
                                                        !.body = body]
       IN Resume(p, IF ingredient_id \notin Ingredients
                    THEN Return(me, "NOT_FOUND")
                    ELSE [me EXCEPT !.pc = "Ingredient_update",
                                    !.priceChanged =
                                        /\ "unit_price" \in DOMAIN body
                                        /\ body.unit_price # unit_price[ingredient_id]])
    /\ UNCHANGED db

Ingredient_update(p) ==
    /\ At(p, "Ingredient_update")
    /\ LET me == proc[p] IN
       /\ stock_quantity' = IF "stock_quantity" \in DOMAIN me.body
                            THEN [stock_quantity EXCEPT ![me.ingredient_id] =
                                      me.body.stock_quantity]
                            ELSE stock_quantity
       /\ unit_price' = IF "unit_price" \in DOMAIN me.body
                        THEN [unit_price EXCEPT ![me.ingredient_id] = me.body.unit_price]
                        ELSE unit_price
       /\ Resume(p, IF me.priceChanged
                    THEN [me EXCEPT !.pc = "recalculateByIngredient"]
                    ELSE Return(me, "ok"))
    /\ UNCHANGED <<products, recipes, orders, order_revisions, stock_movements>>

recalculateByIngredient(p) ==
    /\ At(p, "recalculateByIngredient")
    /\ LET me         == proc[p]
           productIds == productsUsing(me.ingredient_id)
       IN Resume(p, IF productIds = <<>>
                    THEN Return(me, "ok")
                    ELSE [me EXCEPT !.pc = "calculateProductCost",
                                    !.productIds = productIds,
                                    !.k = 1])
    /\ UNCHANGED db

calculateProductCost(p) ==
    /\ At(p, "calculateProductCost")
    /\ LET me      == proc[p]
           recipes_ == findByProductId(me.productIds[me.k])
       IN Resume(p, [me EXCEPT !.pc = "updateCostPrice",
                               !.cost_price = IF recipes_ = <<>> THEN 0
                                              ELSE roundedCost(totalCost(recipes_))])
    /\ UNCHANGED db

updateCostPrice(p) ==
    /\ At(p, "updateCostPrice")
    /\ LET me == proc[p] IN
       /\ products' = [products EXCEPT ![me.productIds[me.k]].cost_price = me.cost_price]
       /\ Resume(p, IF me.k < Len(me.productIds)
                    THEN [me EXCEPT !.pc = "calculateProductCost", !.k = me.k + 1,
                                    !.cost_price = 0]
                    ELSE Return(me, "ok"))
    /\ UNCHANGED <<stock_quantity, unit_price, recipes, orders, order_revisions,
                   stock_movements>>

\* ---- recipeController: each mutation ends with updateProductCost ----

\* fault: the mutation returns without recalculating the product's cost
updateProductCost_skipped(me) == Return(me, "ok")

\* CostCalculator.updateProductCost(productId)
updateProductCost(me) ==
    [me EXCEPT !.pc = "calculateProductCost", !.productIds = <<me.product_id>>, !.k = 1,
               !.cost_price = 0]

\* Recipe.findById: a recipe row is named by its product and its ingredient
Recipe_findById(id) == id[1] \in DOMAIN recipes /\ recipes[id[1]][id[2]] > 0

\* POST /recipes
createRecipe(p, product_id, ingredient_id, quantity_needed) ==
    /\ Accept(p)
    /\ LET me == [NewRequest("createRecipe") EXCEPT !.product_id = product_id,
                                                    !.ingredient_id = ingredient_id,
                                                    !.quantity = quantity_needed]
       IN Resume(p, IF product_id \notin DOMAIN products \/ ingredient_id \notin Ingredients
                    THEN Return(me, "NOT_FOUND")
                    ELSE [me EXCEPT !.pc = "Recipe_upsert"])
    /\ UNCHANGED db

\* insert, or on conflict (product_id, ingredient_id) update
Recipe_upsert(p) ==
    /\ At(p, "Recipe_upsert")
    /\ LET me == proc[p] IN
       /\ recipes' = [recipes EXCEPT ![me.product_id][me.ingredient_id] = me.quantity]
       /\ Resume(p, updateProductCost(me))
    /\ UNCHANGED <<stock_quantity, unit_price, products, orders, order_revisions,
                   stock_movements>>

\* PUT /recipes/:id
updateRecipe(p, id, quantity_needed) ==
    /\ Accept(p)
    /\ LET me == [NewRequest("updateRecipe") EXCEPT !.product_id = id[1],
                                                    !.ingredient_id = id[2],
                                                    !.quantity = quantity_needed]
       IN Resume(p, IF ~Recipe_findById(id)
                    THEN Return(me, "NOT_FOUND")
                    ELSE [me EXCEPT !.pc = "Recipe_update"])
    /\ UNCHANGED db

\* UPDATE ... WHERE id, .single(): an error when the row is gone
Recipe_update(p) ==
    /\ At(p, "Recipe_update")
    /\ LET me == proc[p] IN
       IF Recipe_findById(<<me.product_id, me.ingredient_id>>)
       THEN /\ recipes' = [recipes EXCEPT ![me.product_id][me.ingredient_id] = me.quantity]
            /\ Resume(p, updateProductCost(me))
       ELSE /\ recipes' = recipes
            /\ Resume(p, Return(me, "ERROR"))
    /\ UNCHANGED <<stock_quantity, unit_price, products, orders, order_revisions,
                   stock_movements>>

\* DELETE /recipes/:id
deleteRecipe(p, id) ==
    /\ Accept(p)
    /\ LET me == [NewRequest("deleteRecipe") EXCEPT !.product_id = id[1],
                                                    !.ingredient_id = id[2]]
       IN Resume(p, IF ~Recipe_findById(id)
                    THEN Return(me, "NOT_FOUND")
                    ELSE [me EXCEPT !.pc = "Recipe_delete"])
    /\ UNCHANGED db

Recipe_delete(p) ==
    /\ At(p, "Recipe_delete")
    /\ LET me == proc[p] IN
       /\ recipes' = [recipes EXCEPT ![me.product_id][me.ingredient_id] = 0]
       /\ Resume(p, updateProductCost(me))
    /\ UNCHANGED <<stock_quantity, unit_price, products, orders, order_revisions,
                   stock_movements>>

\* POST /recipes/bulk
bulkUpdateRecipe(p, product_id, ingredients) ==
    /\ Accept(p)
    /\ LET me == [NewRequest("bulkUpdateRecipe") EXCEPT !.product_id = product_id,
                                                        !.body = ingredients]
       IN Resume(p, IF \/ product_id \notin DOMAIN products
                       \/ \E n \in 1..Len(ingredients) :
                              ingredients[n].ingredient_id \notin Ingredients
                    THEN Return(me, "NOT_FOUND")
                    ELSE [me EXCEPT !.pc = "Recipe_deleteByProductId"])
    /\ UNCHANGED db

\* Recipe.bulkUpdate, its first query: the product's rows are deleted
Recipe_deleteByProductId(p) ==
    /\ At(p, "Recipe_deleteByProductId")
    /\ LET me == proc[p] IN
       /\ recipes' = [recipes EXCEPT ![me.product_id] = [i \in Ingredients |-> 0]]
       /\ Resume(p, [me EXCEPT !.pc = "Recipe_insert"])
    /\ UNCHANGED <<stock_quantity, unit_price, products, orders, order_revisions,
                   stock_movements>>

\* Recipe.bulkUpdate, its second query: the new rows are inserted
Recipe_insert(p) ==
    /\ At(p, "Recipe_insert")
    /\ LET me == proc[p] IN
       /\ recipes' = [recipes EXCEPT ![me.product_id] =
                         [i \in Ingredients |->
                             IF \E n \in 1..Len(me.body) : me.body[n].ingredient_id = i
                             THEN me.body[CHOOSE n \in 1..Len(me.body) :
                                              me.body[n].ingredient_id = i].quantity_needed
                             ELSE recipes[me.product_id][i]]]
       /\ Resume(p, updateProductCost(me))
    /\ UNCHANGED <<stock_quantity, unit_price, products, orders, order_revisions,
                   stock_movements>>

----------------------------------------------------------------------------
\* Requests

Quantities == 1..MaxQuantity

Line(product_id, quantity) == [product_id |-> product_id, quantity |-> quantity]

\* one line, or a bread line followed by a cake line (both use flour)
Lines ==
    {<<Line(product_id, q)>> : product_id \in Products, q \in Quantities}
    \cup {<<Line("bread", q), Line("cake", q)>> : q \in Quantities}

\* the orders that exist, and one id that does not
OrderIds == 1..(Len(orders) + 1)

\* PUT /orders/:id with a well-formed product id that no product row has
UnknownProductLines == {<<Line("scone", 1)>>}

\* manual adjustments: a receipt, a withdrawal larger than any stock of the
\* fixture, a signed correction
Adjustments == {<<1, "in">>, <<4, "out">>, <<-1, "adjustment">>}

\* PUT /products/:id bodies
ProductBodies ==
    {<<"bread", [selling_price |-> 600]>>,
     <<"cake",  [selling_price |-> 350]>>,
     <<"bread", [is_available |-> FALSE]>>}

\* PUT /ingredients/:id bodies
IngredientBodies ==
    {<<"flour", [unit_price |-> 80]>>,
     <<"sugar", [unit_price |-> 160]>>,
     <<"flour", [stock_quantity |-> 1]>>}

\* recipe rows by (product, ingredient); cake has no sugar row at the start
RecipeIds == {<<"bread", "flour">>, <<"bread", "sugar">>, <<"cake", "flour">>,
              <<"cake", "sugar">>}

\* POST /recipes bodies: a row is added to cake, bread's flour row is replaced
RecipeBodies == {<<"cake", "sugar", 1>>, <<"bread", "flour", 1>>}

\* POST /recipes/bulk bodies
BulkRecipeBodies ==
    {<<"cake", <<[ingredient_id |-> "flour", quantity_needed |-> 2]>>>>}

\* The tables when the server starts: one order of one bread has been taken
\* (and is pending or already in process), its stock deducted and recorded.
FirstOrderItems == <<[product_id |-> "bread", quantity |-> 1, unit_price |-> 500]>>

Tables(status) ==
    /\ unit_price = InitUnitPrice
    /\ recipes = InitRecipes
    /\ products = [bread |-> [selling_price |-> 500, cost_price |-> 2, is_available |-> TRUE],
                   cake  |-> [selling_price |-> 300, cost_price |-> 1, is_available |-> TRUE]]
    /\ orders = <<[order_number |-> 1,
                   status       |-> status,
                   items        |-> orderItemRows(FirstOrderItems),
                   total_amount |-> totalAmount(FirstOrderItems)]>>
    /\ stock_quantity = [i \in Ingredients |-> OpeningStock[i] - InitRecipes["bread"][i]]
    /\ stock_movements = [n \in 1..Len(IngredientOrder) |->
                             [ingredient_id  |-> IngredientOrder[n],
                              movement_type  |-> "out",
                              quantity       |-> -InitRecipes["bread"][IngredientOrder[n]],
                              reference_type |-> "order",
                              reference_id   |-> 1]]
    /\ order_revisions = IF status = "pending" THEN <<>>
                         ELSE <<[order_id      |-> 1,
                                 revision_type |-> "update_status",
                                 old_value     |-> [status |-> "pending"],
                                 new_value     |-> [status |-> status]]>>
    /\ proc = [p \in Procs |-> IdleProc]

\* Spec: two requests, one per handler slot, race on the tables
Init ==
    /\ \E status \in {"pending", "processing"} : Tables(status)
    /\ budget = Cardinality(Procs)
    /\ history = <<Unrecorded>>

\* SeqSpec: MaxRequests requests, one after the other
SeqInit ==
    /\ \E status \in {"pending", "processing"} : Tables(status)
    /\ budget = MaxRequests
    /\ history = <<>>

\* a request arrives at handler slot p
Request(p) ==
    \/ \E items \in Lines : createOrder(p, items)
    \/ \E o \in OrderIds : cancelOrder(p, o)
    \/ \E o \in 1..Len(orders), s \in Statuses : updateOrderStatus(p, o, s)
    \/ \E o \in 1..Len(orders), items \in Lines \cup {<<>>} \cup UnknownProductLines :
           updateOrder(p, o, items)
    \/ \E o \in 1..Len(orders), product_id \in Products :
           addOrderItem(p, o, Line(product_id, 1))
    \/ \E o \in 1..Len(orders), product_id \in Products : removeOrderItem(p, o, product_id)
    \/ \E i \in Ingredients, a \in Adjustments : adjustStock(p, i, a[1], a[2])
    \/ \E b \in ProductBodies : updateProduct(p, b[1], b[2])
    \/ \E b \in IngredientBodies : updateIngredient(p, b[1], b[2])
    \/ \E b \in RecipeBodies : createRecipe(p, b[1], b[2], b[3])
    \/ \E b \in BulkRecipeBodies : bulkUpdateRecipe(p, b[1], b[2])
    \/ \E id \in RecipeIds : updateRecipe(p, id, 1)
    \/ \E id \in RecipeIds : deleteRecipe(p, id)

\* the requests that race in Spec: single-unit orders and unit adjustments on
\* the orders that exist
RaceLines == {<<Line("bread", 1)>>, <<Line("cake", 1)>>, <<Line("bread", 1), Line("cake", 1)>>}

RaceRequest(p) ==
    \/ \E items \in RaceLines : createOrder(p, items)
    \/ \E o \in 1..Len(orders) : cancelOrder(p, o)
    \/ \E o \in 1..Len(orders), s \in Statuses : updateOrderStatus(p, o, s)
    \/ \E o \in 1..Len(orders) : updateOrder(p, o, <<Line("cake", 1)>>)
    \/ \E o \in 1..Len(orders) : addOrderItem(p, o, Line("cake", 1))
    \/ \E o \in 1..Len(orders), product_id \in Products : removeOrderItem(p, o, product_id)
    \/ \E t \in {"in", "out"} : adjustStock(p, "flour", 1, t)

\* the handler in slot p runs to its next await
Step(p) ==
    \/ createOrder_checkOrderStock(p)
    \/ generateOrderNumber(p)
    \/ Order_create(p)
    \/ deductOrderStock_check(p)
    \/ deductOrderStock_findById(p)
    \/ deductOrderStock_updateStock(p)
    \/ deductOrderStock_createBatch(p)
    \/ returnOrderStock_findById(p)
    \/ returnOrderStock_updateStock(p)
    \/ returnOrderStock_createBatch(p)
    \/ cancelOrder_createRevision(p)
    \/ cancelOrder_cancel(p)
    \/ updateOrderStatus_createRevision(p)
    \/ Order_updateStatus(p)
    \/ updateOrder_findById(p)
    \/ updateOrder_checkOrderStock(p)
    \/ updateOrder_createRevision(p)
    \/ Order_update(p)
    \/ addOrderItem_createRevision(p)
    \/ removeOrderItem_createRevision(p)
    \/ adjustStock_findById(p)
    \/ adjustStock_updateStock(p)
    \/ adjustStock_create(p)

\* the catalog handlers running in slot p
CatalogStep(p) ==
    \/ Product_update(p)
    \/ Ingredient_update(p)
    \/ recalculateByIngredient(p)
    \/ calculateProductCost(p)
    \/ updateCostPrice(p)
    \/ Recipe_upsert(p)
    \/ Recipe_update(p)
    \/ Recipe_delete(p)
    \/ Recipe_deleteByProductId(p)
    \/ Recipe_insert(p)

Next == \E p \in Procs : RaceRequest(p) \/ Step(p)

Spec == Init /\ [][Next]_vars

\* one request at a time, each handler running to completion
SeqNext == \E p \in {"r1"} : Request(p) \/ Step(p) \/ CatalogStep(p)

SeqSpec == SeqInit /\ [][SeqNext]_vars

----------------------------------------------------------------------------
\* Vocabulary of the properties

\* no handler is between two of its queries
Quiescent == \A p \in Procs : proc[p].pc = "idle"

\* the sum of the signed quantities the ledger records for ingredient i
RECURSIVE LedgerSum(_, _)
LedgerSum(movements, i) ==
    IF movements = <<>> THEN 0
    ELSE (IF Head(movements).ingredient_id = i THEN Head(movements).quantity ELSE 0)
         + LedgerSum(Tail(movements), i)

\* what the lines need of ingredient i under the recipes rcp
RECURSIVE Needed(_, _, _)
Needed(rcp, items, i) ==
    IF items = <<>> THEN 0
    ELSE rcp[Head(items).product_id][i] * Head(items).quantity
         + Needed(rcp, Tail(items), i)

\* the exact recipe cost of a product at the current prices, in ten-thousandths
RecipeCost(product_id) ==
    SumSeq([n \in 1..Len(IngredientOrder) |->
               recipes[product_id][IngredientOrder[n]] * unit_price[IngredientOrder[n]]])

----------------------------------------------------------------------------
\* C1: in every reachable state, under every interleaving of createOrder,
\* updateOrder, addOrderItem, removeOrderItem, updateOrderStatus, cancelOrder
\* and adjustStock, every ingredient's stock_quantity is >= 0.
C1_StockNonNegative == \A i \in Ingredients : stock_quantity[i] >= 0

\* a deduction is about to write stock that another request lowered below
\* what it deducts, after its own re-check passed
C1_ClampReached ==
    \E p \in Procs :
        /\ proc[p].pc = "deductOrderStock_updateStock"
        /\ proc[p].current < proc[p].requirements[proc[p].k].quantity_needed

----------------------------------------------------------------------------
\* C2: whenever no handler is running (and no ingredient row was edited
\* directly), every ingredient's stock_quantity equals its opening stock plus
\* the sum of the signed quantities of its ledger entries.
C2_Conservation ==
    (Quiescent /\ \A n \in 1..Len(history) : history[n].op # "updateIngredient")
    => \A i \in Ingredients :
           stock_quantity[i] = OpeningStock[i] + LedgerSum(stock_movements, i)

----------------------------------------------------------------------------
\* C3: createOrder followed at once by cancelOrder of the order it created
\* leaves every ingredient's stock as it was before createOrder, and the
\* ledger gains, for each ingredient the lines use, one deduction entry of the
\* quantity needed and one return entry, and nothing else.
C3_CreateThenCancel ==
    /\ Quiescent
    /\ Len(history) >= 2
    /\ history[Len(history) - 1].op = "createOrder"
    /\ history[Len(history) - 1].result = "ok"
    /\ last.op = "cancelOrder"
    /\ last.order_id = history[Len(history) - 1].order_id

C3_RoundTrip ==
    C3_CreateThenCancel =>
        LET created == history[Len(history) - 1]
            before  == created.pre
            gained  == SubSeq(stock_movements, Len(before.stock_movements) + 1,
                              Len(stock_movements))
            entries(i, type, reference) ==
                {n \in 1..Len(gained) :
                    /\ gained[n].ingredient_id = i
                    /\ gained[n].movement_type = type
                    /\ gained[n].reference_type = reference
                    /\ gained[n].reference_id = created.order_id}
            used == {i \in Ingredients : Needed(before.recipes, created.items, i) > 0}
        IN /\ last.result = "ok"
           /\ stock_quantity = before.stock_quantity
           /\ Len(gained) = 2 * Cardinality(used)
           /\ \A i \in used :
                  /\ Cardinality(entries(i, "out", "order")) = 1
                  /\ Cardinality(entries(i, "in", "order_cancel")) = 1
                  /\ \A n \in entries(i, "out", "order") :
                         gained[n].quantity = -Needed(before.recipes, created.items, i)

\* an order of two lines that share an ingredient was created and cancelled
C3_TwoLinesCancelled ==
    /\ C3_CreateThenCancel
    /\ Len(history[Len(history) - 1].items) = 2
    /\ last.result = "ok"

----------------------------------------------------------------------------
\* C4: when two createOrder calls have both persisted their order, the 'out'
\* quantities the ledger records for an ingredient never exceed the stock
\* that existed to cover them.
C4_NoJointOverdraw ==
    Len(orders) = 3 =>
        \A i \in Ingredients : OpeningStock[i] + LedgerSum(stock_movements, i) >= 0

----------------------------------------------------------------------------
\* C5: once createOrder has returned or thrown, every persisted order that is
\* not cancelled has had its lines deducted from stock.
C5_CreateAndDeductAreOneUnit ==
    \A o \in 1..Len(orders) :
        (/\ orders[o].status # "cancelled"
         /\ ~\E p \in Procs : proc[p].op = "createOrder" /\ proc[p].order_id = o)
        => \E n \in 1..Len(stock_movements) :
               /\ stock_movements[n].reference_type = "order"
               /\ stock_movements[n].reference_id = o
               /\ stock_movements[n].movement_type = "out"

----------------------------------------------------------------------------
\* C6: while a deduction has written some of its stock updates and not yet
\* all of its ledger entries, no other handler is at a query that reads stock.
PartWay(p) ==
    \/ /\ proc[p].pc \in {"deductOrderStock_findById", "deductOrderStock_updateStock"}
       /\ proc[p].stockMovements # <<>>
    \/ proc[p].pc = "deductOrderStock_createBatch"

StockReads ==
    {"createOrder_checkOrderStock", "deductOrderStock_check", "deductOrderStock_findById",
     "returnOrderStock_findById", "updateOrder_checkOrderStock", "adjustStock_findById"}

C6_AtomicDeduction ==
    \A p \in Procs, q \in Procs :
        (p # q /\ PartWay(p)) => proc[q].pc \notin StockReads

----------------------------------------------------------------------------
\* C7: updateOrderStatus succeeds exactly on pending->processing,
\* pending->cancelled, processing->completed and processing->cancelled; on
\* every other pair it is rejected and the order's status, every stock, the
\* ledger and the revision log stay as they were.
LegalEdges ==
    {<<"pending", "processing">>, <<"pending", "cancelled">>,
     <<"processing", "completed">>, <<"processing", "cancelled">>}

C7_TransitionLegality ==
    (/\ Quiescent
     /\ last.op = "updateOrderStatus"
     /\ last.order_id \in 1..Len(last.pre.orders))
    => LET before == last.pre.orders[last.order_id].status IN
       IF <<before, last.status>> \in LegalEdges
       THEN /\ last.result = "ok"
            /\ orders[last.order_id].status = last.status
       ELSE /\ last.result # "ok"
            /\ orders[last.order_id].status = before
            /\ stock_quantity = last.pre.stock_quantity
            /\ stock_movements = last.pre.stock_movements
            /\ order_revisions = last.pre.order_revisions

\* a completed order was asked to go back to processing, and was refused
C7_ReopenRefused ==
    /\ Quiescent
    /\ last.op = "updateOrderStatus"
    /\ last.order_id \in 1..Len(last.pre.orders)
    /\ last.pre.orders[last.order_id].status = "completed"
    /\ last.status = "processing"
    /\ last.result # "ok"

----------------------------------------------------------------------------
\* C8: a change of a product's selling_price leaves every existing order's
\* lines (unit_price, subtotal) and total_amount as they were.
C8_PriceFreeze ==
    (/\ Quiescent
     /\ last.op = "updateProduct"
     /\ "selling_price" \in DOMAIN last.body
     /\ last.result = "ok")
    => /\ Len(orders) = Len(last.pre.orders)
       /\ \A o \in 1..Len(orders) :
              /\ orders[o].total_amount = last.pre.orders[o].total_amount
              /\ Len(orders[o].items) = Len(last.pre.orders[o].items)
              /\ \A n \in 1..Len(orders[o].items) :
                     /\ orders[o].items[n].unit_price = last.pre.orders[o].items[n].unit_price
                     /\ orders[o].items[n].subtotal = last.pre.orders[o].items[n].subtotal

\* an order was created with a line of a product, and the product's price was
\* then changed to another value
C8_PriceChangedAfterOrder ==
    /\ Quiescent
    /\ Len(history) = 2
    /\ history[1].op = "createOrder"
    /\ history[1].result = "ok"
    /\ last.op = "updateProduct"
    /\ last.result = "ok"
    /\ "selling_price" \in DOMAIN last.body
    /\ products[last.product_id].selling_price
           # last.pre.products[last.product_id].selling_price
    /\ \E n \in 1..Len(orders[history[1].order_id].items) :
           orders[history[1].order_id].items[n].product_id = last.product_id

----------------------------------------------------------------------------
\* C9: createOrder of lines that need more of some ingredient than is in stock
\* fails with INSUFFICIENT_STOCK, carrying for each short ingredient required,
\* available and shortage = required - available; no order, revision or ledger
\* entry is created and every stock is unchanged.
C9_Short ==
    /\ Quiescent
    /\ last.op = "createOrder"
    /\ \E i \in Ingredients :
           Needed(last.pre.recipes, last.items, i) > last.pre.stock_quantity[i]

C9_Refused ==
    /\ last.result = "INSUFFICIENT_STOCK"
    /\ \A i \in Ingredients :
           Needed(last.pre.recipes, last.items, i) > last.pre.stock_quantity[i]
           <=> \E n \in 1..Len(last.shortages) : last.shortages[n].ingredient_id = i
    /\ \A n \in 1..Len(last.shortages) :
           LET s == last.shortages[n] IN
           /\ s.required = Needed(last.pre.recipes, last.items, s.ingredient_id)
           /\ s.available = last.pre.stock_quantity[s.ingredient_id]
           /\ s.shortage = s.required - s.available
    /\ orders = last.pre.orders
    /\ order_revisions = last.pre.order_revisions
    /\ stock_movements = last.pre.stock_movements
    /\ stock_quantity = last.pre.stock_quantity

C9_InsufficientStockOnCreate == C9_Short => C9_Refused

\* C9, for lines whose products are all available: the same outcome.
C9_InsufficientStockOnCreate_Available ==
    (/\ C9_Short
     /\ \A n \in 1..Len(last.items) :
            last.pre.products[last.items[n].product_id].is_available)
    => C9_Refused

\* a two-line order was refused for want of stock
C9_TwoLinesRefused ==
    /\ C9_Short
    /\ Len(last.items) = 2
    /\ last.result = "INSUFFICIENT_STOCK"
    /\ last.shortages # <<>>

----------------------------------------------------------------------------
\* C10: after an ingredient's price change has been propagated, every product
\* whose recipe contains the ingredient has cost_price equal to the sum over
\* its recipe of quantity_needed x unit_price, and every other product's
\* cost_price is as it was.
C10_PriceChanged ==
    /\ Quiescent
    /\ last.op = "updateIngredient"
    /\ last.result = "ok"
    /\ "unit_price" \in DOMAIN last.body
    /\ last.body.unit_price # last.pre.unit_price[last.ingredient_id]

C10_CostPropagation ==
    C10_PriceChanged =>
        \A product_id \in Products :
            IF recipes[product_id][last.ingredient_id] > 0
            THEN 100 * products[product_id].cost_price = RecipeCost(product_id)
            ELSE products[product_id].cost_price = last.pre.products[product_id].cost_price

\* C10, with the sum rounded to two decimals (half up): the same frame, and
\* each recalculated cost_price is the hundredth nearest to the sum.
C10_CostPropagation_Rounded ==
    C10_PriceChanged =>
        \A product_id \in Products :
            IF recipes[product_id][last.ingredient_id] > 0
            THEN /\ 100 * products[product_id].cost_price - 50 <= RecipeCost(product_id)
                 /\ RecipeCost(product_id) < 100 * products[product_id].cost_price + 50
            ELSE products[product_id].cost_price = last.pre.products[product_id].cost_price

\* a price change moved the cost_price of a product that uses the ingredient
\* to a rounded value, and there is a product that does not use it
C10_RoundedAndFramed ==
    /\ C10_PriceChanged
    /\ \E product_id \in Products :
           /\ recipes[product_id][last.ingredient_id] > 0
           /\ products[product_id].cost_price # last.pre.products[product_id].cost_price
           /\ 100 * products[product_id].cost_price # RecipeCost(product_id)
    /\ \E product_id \in Products : recipes[product_id][last.ingredient_id] = 0

----------------------------------------------------------------------------
\* QuerySpec: the two read-only stock queries, applied once to tables drawn
\* from a range of stocks and recipes

MaxStock == 3

QueryStocks == 0..MaxStock \cup {15, 117}

\* the recipes as at the start; cake without a recipe; cake needing 0.05 and
\* 0.39 of flour
RecipeTables ==
    {InitRecipes,
     [InitRecipes EXCEPT !["cake"] = [flour |-> 0, sugar |-> 0]],
     [InitRecipes EXCEPT !["cake"] = [flour |-> 5, sugar |-> 0]],
     [InitRecipes EXCEPT !["cake"] = [flour |-> 39, sugar |-> 0]]}

QueryQuantities == 1..(MaxQuantity + 1)

QueryLines ==
    {<<Line(product_id, q)>> : product_id \in Products, q \in QueryQuantities}
        \cup {<<Line("bread", q), Line("cake", q)>> : q \in QueryQuantities}

QueryInit ==
    /\ stock_quantity \in [Ingredients -> QueryStocks]
    /\ recipes \in RecipeTables
    /\ unit_price = InitUnitPrice
    /\ products = [bread |-> [selling_price |-> 500, cost_price |-> 2, is_available |-> TRUE],
                   cake  |-> [selling_price |-> 300, cost_price |-> 1, is_available |-> TRUE]]
    /\ orders = <<>>
    /\ order_revisions = <<>>
    /\ stock_movements = <<>>
    /\ proc = [p \in Procs |-> IdleProc]
    /\ history = <<>>
    /\ budget = 1

\* a query's arguments with the value it returned
Answer(op, items, product_id, value) ==
    [op |-> op, items |-> items, product_id |-> product_id, value |-> value]

callCheckOrderStock(orderItems) ==
    /\ budget > 0
    /\ budget' = budget - 1
    /\ history' = Append(history,
                      Answer("checkOrderStock", orderItems, "none",
                             checkOrderStock(orderItems)))
    /\ UNCHANGED <<db, proc>>

callGetMaxOrderableQuantity(product_id) ==
    /\ budget > 0
    /\ budget' = budget - 1
    /\ history' = Append(history,
                      Answer("getMaxOrderableQuantity", <<>>, product_id,
                             getMaxOrderableQuantity(product_id)))
    /\ UNCHANGED <<db, proc>>

QueryNext ==
    \/ \E orderItems \in QueryLines : callCheckOrderStock(orderItems)
    \/ \E product_id \in Products : callGetMaxOrderableQuantity(product_id)

QuerySpec == QueryInit /\ [][QueryNext]_vars

----------------------------------------------------------------------------
\* C11: no createOrder call is about to insert an order under a number that
\* generateOrderNumber also gave to another call, persisted or in progress.
C11_UniqueOrderNumbers ==
    \A p \in Procs :
        proc[p].pc = "Order_create" =>
            /\ \A o \in 1..Len(orders) : orders[o].order_number # proc[p].orderNumber
            /\ \A q \in Procs \ {p} :
                   proc[q].pc = "Order_create" => proc[q].orderNumber # proc[p].orderNumber

----------------------------------------------------------------------------
\* C12: adjustStock of a signed amount that would take the stock below zero is
\* rejected with INSUFFICIENT_STOCK, and the stock and the ledger are as they
\* were.
Abs(n) == IF n >= 0 THEN n ELSE -n

SignedAmount(quantity, type) ==
    CASE type = "in"  -> Abs(quantity)
      [] type = "out" -> -Abs(quantity)
      [] OTHER        -> quantity

C12_Overdraw ==
    /\ Quiescent
    /\ last.op = "adjustStock"
    /\ last.pre.stock_quantity[last.ingredient_id]
           + SignedAmount(last.quantity, last.type) < 0

\* C12: an adjustment that would make the stock negative is rejected with
\* INSUFFICIENT_STOCK, stock and ledger unchanged
C12_AdjustStockRejects ==
    C12_Overdraw =>
        /\ last.result = "INSUFFICIENT_STOCK"
        /\ stock_quantity = last.pre.stock_quantity
        /\ stock_movements = last.pre.stock_movements

\* a withdrawal larger than the stock was asked for and refused
C12_WithdrawalRefused ==
    /\ C12_Overdraw
    /\ last.type = "out"
    /\ last.result = "INSUFFICIENT_STOCK"

----------------------------------------------------------------------------
\* C13: updateOrder, addOrderItem, removeOrderItem and cancelOrder on an order
\* that is completed or cancelled are rejected, and the orders, every stock,
\* the ledger and the revision log are as they were.
C13_OnTerminalOrder ==
    /\ Quiescent
    /\ last.op \in {"updateOrder", "addOrderItem", "removeOrderItem", "cancelOrder"}
    /\ last.order_id \in 1..Len(last.pre.orders)
    /\ last.pre.orders[last.order_id].status \in {"completed", "cancelled"}

\* C13: an edit or cancellation of a completed or cancelled order is rejected
\* and changes nothing
C13_TerminalOrdersImmutable ==
    C13_OnTerminalOrder =>
        /\ last.result # "ok"
        /\ orders = last.pre.orders
        /\ stock_quantity = last.pre.stock_quantity
        /\ stock_movements = last.pre.stock_movements
        /\ order_revisions = last.pre.order_revisions

\* new lines were sent for a completed order, and refused
C13_EditOfCompletedRefused ==
    /\ C13_OnTerminalOrder
    /\ last.op = "updateOrder"
    /\ last.items # <<>>
    /\ last.pre.orders[last.order_id].status = "completed"
    /\ last.result # "ok"

----------------------------------------------------------------------------
\* C14: updateOrder with new lines that need more of some ingredient than is
\* in stock once the current lines' stock is returned fails with
\* INSUFFICIENT_STOCK, and every stock and the order's lines and total_amount
\* are as they were before the call.

\* an updateOrder with lines, on an order that can still be edited
C14_LinesSent ==
    /\ Quiescent
    /\ last.op = "updateOrder"
    /\ last.items # <<>>
    /\ last.order_id \in 1..Len(last.pre.orders)
    /\ last.pre.orders[last.order_id].status \notin {"completed", "cancelled"}
    /\ \A n \in 1..Len(last.items) : last.items[n].product_id \in Products

C14_Insufficient ==
    /\ C14_LinesSent
    /\ \E i \in Ingredients :
           Needed(last.pre.recipes, last.items, i)
               > last.pre.stock_quantity[i]
                 + Needed(last.pre.recipes, last.pre.orders[last.order_id].items, i)

\* C14: an updateOrder refused for insufficient stock leaves every stock and
\* the order's lines and total_amount at their values before the call
C14_FailedUpdateRestores ==
    C14_Insufficient =>
        /\ last.result = "INSUFFICIENT_STOCK"
        /\ stock_quantity = last.pre.stock_quantity
        /\ orders[last.order_id].items = last.pre.orders[last.order_id].items
        /\ orders[last.order_id].total_amount = last.pre.orders[last.order_id].total_amount

\* the update was refused after the order's own stock had been given back
C14_RefusedAfterReturn ==
    /\ C14_Insufficient
    /\ last.result = "INSUFFICIENT_STOCK"
    /\ Len(stock_movements) > Len(last.pre.stock_movements)

----------------------------------------------------------------------------
\* C15: a successful updateOrder replacing lines L_old by L_new appends
\* exactly one update_quantity revision, with old_value L_old and new_value
\* L_new, and leaves every stock at its value before the call plus what L_old
\* needs minus what L_new needs.
LinesOf(rows) ==
    [n \in 1..Len(rows) |-> [product_id |-> rows[n].product_id,
                             quantity   |-> rows[n].quantity]]

C15_Replaced ==
    /\ C14_LinesSent
    /\ last.result = "ok"

\* C15: a successful updateOrder writes exactly one update_quantity revision
\* (old lines, new lines) and moves each stock by old need - new need
C15_UpdateRevisionAndStock ==
    C15_Replaced =>
        LET L_old == last.pre.orders[last.order_id].items
            L_new == last.items
            n     == Len(order_revisions)
        IN /\ n = Len(last.pre.order_revisions) + 1
           /\ SubSeq(order_revisions, 1, n - 1) = last.pre.order_revisions
           /\ order_revisions[n].revision_type = "update_quantity"
           /\ order_revisions[n].order_id = last.order_id
           /\ LinesOf(order_revisions[n].old_value.items) = LinesOf(L_old)
           /\ LinesOf(order_revisions[n].new_value.items) = LinesOf(L_new)
           /\ \A i \in Ingredients :
                  stock_quantity[i] = last.pre.stock_quantity[i]
                                        + Needed(last.pre.recipes, L_old, i)
                                        - Needed(last.pre.recipes, L_new, i)

\* the new lines differ from the old ones and some stock moved
C15_LinesReplaced ==
    /\ C15_Replaced
    /\ LinesOf(last.pre.orders[last.order_id].items) # LinesOf(last.items)
    /\ stock_quantity # last.pre.stock_quantity

----------------------------------------------------------------------------
\* C17: a successful deductOrderStock(orderId, lines) lowers each required
\* ingredient's stock by its aggregate requirement and appends exactly one
\* 'out' entry per required ingredient, of minus that requirement and
\* referencing ('order', orderId); other ingredients are untouched.

\* the ledger entries written since the last request was called
Gained == SubSeq(stock_movements, Len(last.pre.stock_movements) + 1, Len(stock_movements))

C17_Deducted ==
    /\ Quiescent
    /\ last.op = "createOrder"
    /\ last.result = "ok"

\* C17: a successful deduction lowers each required stock by its aggregate
\* requirement and writes one 'out' entry of minus that amount per ingredient
C17_DeductionExact ==
    C17_Deducted =>
        LET need(i) == Needed(last.pre.recipes, last.items, i)
            used    == {i \in Ingredients : need(i) > 0}
        IN /\ \A i \in Ingredients :
                  stock_quantity[i] = last.pre.stock_quantity[i] - need(i)
           /\ Len(Gained) = Cardinality(used)
           /\ \A i \in used :
                  \E n \in 1..Len(Gained) :
                      Gained[n] = [ingredient_id  |-> i,
                                   movement_type  |-> "out",
                                   quantity       |-> -need(i),
                                   reference_type |-> "order",
                                   reference_id   |-> last.order_id]

\* two lines sharing an ingredient were deducted
C17_SharedIngredientDeducted ==
    /\ C17_Deducted
    /\ Len(last.items) = 2
    /\ \E i \in Ingredients :
           \A n \in 1..2 : last.pre.recipes[last.items[n].product_id][i] > 0

----------------------------------------------------------------------------
\* C18: after a cancelOrder, for every ingredient the order's lines use, the
\* ledger has gained exactly one 'in' entry referencing order_cancel, and its
\* quantity is what was added back to that ingredient's stock.
C18_ReturnLedgerMatchesStock ==
    (Quiescent /\ last.op = "cancelOrder" /\ last.result = "ok") =>
        LET lines == last.pre.orders[last.order_id].items
            used  == {i \in Ingredients : Needed(last.pre.recipes, lines, i) > 0}
        IN \A i \in used :
               LET entries == {n \in 1..Len(Gained) :
                                  /\ Gained[n].ingredient_id = i
                                  /\ Gained[n].movement_type = "in"
                                  /\ Gained[n].reference_type = "order_cancel"}
               IN /\ Cardinality(entries) = 1
                  /\ \A n \in entries :
                         Gained[n].quantity = stock_quantity[i] - last.pre.stock_quantity[i]

----------------------------------------------------------------------------
\* C19: an accepted adjustStock(ingredient, quantity, type) changes the stock
\* by +|quantity| for 'in', -|quantity| for 'out' and quantity for
\* 'adjustment', and appends exactly one ledger entry, of reference_type
\* 'manual', whose quantity is the change applied to the stock.
C19_Accepted ==
    /\ Quiescent
    /\ last.op = "adjustStock"
    /\ last.result = "ok"

\* C19: an accepted adjustment changes the stock by the signed amount and
\* writes exactly one manual ledger entry of that amount
C19_AdjustmentApplied ==
    C19_Accepted =>
        LET i      == last.ingredient_id
            change == stock_quantity[i] - last.pre.stock_quantity[i]
        IN /\ change = SignedAmount(last.quantity, last.type)
           /\ \A j \in Ingredients \ {i} : stock_quantity[j] = last.pre.stock_quantity[j]
           /\ Len(Gained) = 1
           /\ Gained[1].ingredient_id = i
           /\ Gained[1].reference_type = "manual"
           /\ Gained[1].movement_type = last.type
           /\ Gained[1].quantity = change

\* a withdrawal was accepted
C19_WithdrawalAccepted ==
    /\ C19_Accepted
    /\ last.type = "out"
    /\ stock_quantity[last.ingredient_id] < last.pre.stock_quantity[last.ingredient_id]

----------------------------------------------------------------------------
\* C16: checkOrderStock sums, per ingredient, quantity_needed x quantity over
\* the lines (a product without a recipe adds nothing), reports a shortage,
\* of required - available, for exactly the ingredients whose sum exceeds the
\* stock, and returns canFulfill = true exactly when there is none.
C16_CheckOrderStock ==
    last.op = "checkOrderStock" =>
        LET need(i) == Needed(recipes, last.items, i)
            used    == {i \in Ingredients : need(i) > 0}
            short   == {i \in Ingredients : need(i) > stock_quantity[i]}
            reqs    == last.value.requirements
            shs     == last.value.shortages
        IN /\ Len(reqs) = Cardinality(used)
           /\ {[ingredient_id |-> reqs[n].ingredient_id,
                 quantity_needed |-> reqs[n].quantity_needed] : n \in 1..Len(reqs)}
                 = {[ingredient_id |-> i, quantity_needed |-> need(i)] : i \in used}
           /\ Len(shs) = Cardinality(short)
           /\ {[ingredient_id |-> shs[n].ingredient_id,
                 shortage |-> shs[n].shortage] : n \in 1..Len(shs)}
                 = {[ingredient_id |-> i, shortage |-> need(i) - stock_quantity[i]] : i \in short}
           /\ last.value.canFulfill <=> short = {}

----------------------------------------------------------------------------
\* C20: getMaxOrderableQuantity(p) returns 999 for a product without a
\* recipe and otherwise the smallest floor(stock / quantity_needed) of the
\* product's ingredients, and then checkOrderStock of the single line (p, q)
\* returns canFulfill = true exactly when q <= max_quantity.
C20_MaxOrderableQuantity ==
    last.op = "getMaxOrderableQuantity" =>
        LET p    == last.product_id
            used == {i \in Ingredients : recipes[p][i] > 0}
            m    == last.value.max_quantity
        IN IF used = {} THEN m = 999
           ELSE /\ \A i \in used : m * recipes[p][i] <= stock_quantity[i]
                /\ \E i \in used : (m + 1) * recipes[p][i] > stock_quantity[i]
                /\ \A q \in QueryQuantities :
                       checkOrderStock(<<Line(p, q)>>).canFulfill <=> q <= m

----------------------------------------------------------------------------
\* C23: under every interleaving of updateOrderStatus and cancelOrder, each
\* change of an order's persisted status follows an edge of the transition
\* table; completed and cancelled have no outgoing edge, so a terminal status
\* never changes.
C23_TerminalAbsorbing ==
    [][\A o \in 1..Len(orders) :
           orders'[o].status # orders[o].status =>
               <<orders[o].status, orders'[o].status>> \in LegalEdges]_vars

----------------------------------------------------------------------------
\* the update_status and cancel_order revisions of order o, oldest first
StatusRevisions(revisions, o) ==
    SelectSeq(revisions,
              LAMBDA r : /\ r.order_id = o
                         /\ r.revision_type \in {"update_status", "cancel_order"})

----------------------------------------------------------------------------
\* the number of ledger entries of ingredient i with the given reference
Entries(reference_type, o, i) ==
    Len(SelectSeq(stock_movements,
            LAMBDA m : /\ m.reference_type = reference_type
                       /\ m.reference_id = o
                       /\ m.ingredient_id = i))

\* the stock of order o was deducted once, and no request is replacing its lines
DeductedOnce(o, i) ==
    /\ Entries("order", o, i) = 1
    /\ \A p \in Procs :
           proc[p].order_id = o =>
               proc[p].op \notin {"updateOrder", "addOrderItem", "removeOrderItem"}

\* C25: under every interleaving of cancelOrder and updateOrderStatus
\* requests on an order, the stock deducted for the order is given back at
\* most once: the ledger holds at most one return per ingredient.
C25_ReturnedAtMostOnce ==
    \A o \in 1..Len(orders), i \in Ingredients :
        DeductedOnce(o, i) => Entries("order_cancel", o, i) <= 1

----------------------------------------------------------------------------
\* C26: no operation changes an ingredient's stock_quantity without
\* appending a stock movement for that ingredient: once a request is served,
\* every ingredient whose stock differs from its value at the call has a
\* ledger entry written by the request.
C26_StockChangesAreLedgered ==
    (Quiescent /\ history # <<>>) =>
        \A i \in Ingredients :
            stock_quantity[i] # last.pre.stock_quantity[i] =>
                \E n \in 1..Len(Gained) : Gained[n].ingredient_id = i

----------------------------------------------------------------------------
\* C22: in every reachable state each order's total_amount is the sum over
\* its lines of quantity x unit_price, and each line's subtotal is its
\* quantity x unit_price.
C22_TotalsMatchLines ==
    \A o \in 1..Len(orders) :
        LET lines == orders[o].items IN
        /\ orders[o].total_amount =
               SumSeq([n \in 1..Len(lines) |-> lines[n].quantity * lines[n].unit_price])
        /\ \A n \in 1..Len(lines) :
               lines[n].subtotal = lines[n].quantity * lines[n].unit_price

\* a unit was added to a line of an order, which now has a quantity above 1
C22_LineMerged ==
    /\ Quiescent
    /\ last.op = "addOrderItem"
    /\ last.result = "ok"
    /\ \E n \in 1..Len(orders[last.order_id].items) :
           orders[last.order_id].items[n].quantity > 1

----------------------------------------------------------------------------
\* C28: when addOrderItem, removeOrderItem or updateOrder fails, the order's
\* revision log is as it was before the call.
C28_FailedEditLeavesLog ==
    (/\ Quiescent
     /\ last.op \in {"addOrderItem", "removeOrderItem", "updateOrder"}
     /\ last.result # "ok")
    => order_revisions = last.pre.order_revisions

----------------------------------------------------------------------------
\* C30: after a successful updateOrder, addOrderItem or removeOrderItem,
\* every line whose product was in the order before the edit has the
\* unit_price it had before the edit.
C30_EditKeepsFrozenPrices ==
    (/\ Quiescent
     /\ last.op \in {"updateOrder", "addOrderItem", "removeOrderItem"}
     /\ last.result = "ok")
    => LET old == last.pre.orders[last.order_id].items
           new == orders[last.order_id].items
       IN \A n \in 1..Len(new), k \in 1..Len(old) :
              new[n].product_id = old[k].product_id =>
                  new[n].unit_price = old[k].unit_price

----------------------------------------------------------------------------
\* C27: when updateOrder fails after it has returned the current lines' stock
\* (a new line names a product that does not exist), every ingredient's stock
\* is what it was before the call.
C27_FailedUpdateRestoresStock ==
    (/\ Quiescent
     /\ last.op = "updateOrder"
     /\ last.result # "ok")
    => stock_quantity = last.pre.stock_quantity

----------------------------------------------------------------------------
\* C29: what cancelOrder returns to each ingredient is what was deducted from
\* it for the order's lines, also when the product's recipe was changed
\* between the deduction and the return.

\* what the ledger says was deducted from ingredient i for order o
RECURSIVE DeductedFor(_, _, _)
DeductedFor(movements, o, i) ==
    IF movements = <<>> THEN 0
    ELSE (IF /\ Head(movements).reference_type = "order"
             /\ Head(movements).reference_id = o
             /\ Head(movements).ingredient_id = i
          THEN -Head(movements).quantity ELSE 0)
         + DeductedFor(Tail(movements), o, i)

\* the last request cancelled an order whose lines were deducted once and
\* never replaced
C29_Cancelled ==
    /\ Quiescent
    /\ last.op = "cancelOrder"
    /\ last.result = "ok"
    /\ \A n \in 1..Len(history) :
           history[n].op \notin {"updateOrder", "addOrderItem", "removeOrderItem",
                                 "updateIngredient"}

C29_ReturnEqualsDeduction ==
    C29_Cancelled =>
        \A i \in Ingredients :
            stock_quantity[i] = last.pre.stock_quantity[i]
                                  + DeductedFor(last.pre.stock_movements, last.order_id, i)

----------------------------------------------------------------------------
\* C21: after every completed recipe mutation (createRecipe, bulkUpdateRecipe,
\* updateRecipe, deleteRecipe) and every completed ingredient update that
\* changes unit_price, each product's cost_price equals the sum over its
\* current recipe entries of quantity_needed x the current unit_price (0 for
\* an empty recipe).

RecipeMutations == {"createRecipe", "bulkUpdateRecipe", "updateRecipe", "deleteRecipe"}

\* the last request was a recipe mutation or a price change, and it completed
C21_Recalculated ==
    /\ Quiescent
    /\ last.result = "ok"
    /\ \/ last.op \in RecipeMutations
       \/ /\ last.op = "updateIngredient"
          /\ "unit_price" \in DOMAIN last.body
          /\ last.body.unit_price # last.pre.unit_price[last.ingredient_id]

====
